---------------------------- MODULE Spec2Model ----------------------------
(***************************************************************************)
(* Model of plotbitratefaster.py: the metadata resolver (module level,     *)
(* lines 57-86), the ffprobe packet producer and the decoder loop of       *)
(* main() connected by one pipe (lines 95-134), and the finalization pass  *)
(* that computes the global peak and the piecewise mean (lines 153-173).   *)
(*                                                                         *)
(* Python floats are modelled as exact rationals <<numerator, denominator>>*)
(* in lowest terms; IEEE rounding is outside the model.  Text is modelled  *)
(* as a sequence of tokens: single characters, and whole JSON object texts *)
(* whose decoded content is given by the table Decoded.                    *)
(***************************************************************************)
EXTENDS Integers, Sequences, FiniteSets, TLC

\* ------------------------------------------------------------------ bounds
\* Number of lines the producer writes before it must exit.
MaxLines == 3
\* Number of lines the pipe buffers before the producer blocks.
PipeCap == 2

\* ------------------------------------------------------- float arithmetic
\* Python's None where a float is expected (frame_rate, total_time, percent).
None == <<0, 0>>

Abs(n) == IF n < 0 THEN -n ELSE n

RECURSIVE GCD(_, _)
GCD(a, b) == IF b = 0 THEN a ELSE GCD(b, a % b)

\* The rational n/d (d # 0) in lowest terms with a positive denominator.
Norm(n, d) ==
    LET g == GCD(Abs(n), Abs(d))
        s == IF d < 0 THEN -1 ELSE 1
    IN  <<s * (n \div g), s * (d \div g)>>

FMul(x, y) == Norm(x[1] * y[1], x[2] * y[2])

FDiv(x, y) == Norm(x[1] * y[2], x[2] * y[1])

FAdd(x, y) ==
    LET g == GCD(x[2], y[2])
    IN  Norm(x[1] * (y[2] \div g) + y[1] * (x[2] \div g), x[2] * (y[2] \div g))

FGreater(x, y) == x[1] * y[2] > y[1] * x[2]

FInt(n) == <<n, 1>>

RECURSIVE Pow10(_)
Pow10(e) == IF e = 0 THEN 1 ELSE 10 * Pow10(e - 1)

\* A decimal numeral such as "0.04" is [m |-> 4, e |-> 2]: digits m with e of
\* them after the point.  float(text) is its value.
Dec(m, e) == [m |-> m, e |-> e]

ToFloat(text) == Norm(text.m, Pow10(text.e))

\* ------------------------------------------------------------ line tokens
Whitespace == {" ", "\n", "\r"}

\* JSON object texts ffprobe prints for a packet, by name, with their content.
\* P3 carries no duration_time (ffprobe omits unknown fields); P4 is a
\* keyframe that also carries the discard flag.
Decoded(tok) ==
    CASE tok = "P1" -> [pts_time |-> Dec(0, 2), size |-> Dec(1000, 0),
                        duration_time |-> Dec(2, 2), flags |-> "K_"]
      [] tok = "P2" -> [pts_time |-> Dec(4, 2), size |-> Dec(500, 0),
                        duration_time |-> Dec(4, 2), flags |-> "__"]
      [] tok = "P3" -> [pts_time |-> Dec(10, 1), size |-> Dec(100, 0),
                        flags |-> "K_"]
      [] tok = "P4" -> [pts_time |-> Dec(120, 1), size |-> Dec(0, 0),
                        duration_time |-> Dec(4, 2), flags |-> "KD"]

ObjectTokens == {"P1", "P2", "P3", "P4"}

\* Text that holds the characters pts_time: the objects, and "P1~", the text
\* of P1 cut off before its closing brace.
MarkerTokens == ObjectTokens \cup {"P1~"}

\* The raw lines the producer can write.
Lines ==
    { <<" ", "P1", ",", "\n">>,
      <<" ", "P2", ",", "\r", "\n">>,
      <<"P3", ",", "\n">>,
      <<"P3", "\n">>,
      <<" ", "P4", "\n">>,
      <<"\n">>,
      <<" ", "]", "\n">>,
      <<",", "\n">>,
      <<"P1~", "\n">>,
      <<"P2", ",", ",", "\n">> }

\* ------------------------------------------------------ line normalisation
\* str.replace("\r\n", ""): every "\r" directly followed by "\n" goes, with it.
RECURSIVE ReplaceCRLF(_)
ReplaceCRLF(s) ==
    IF Len(s) = 0 THEN s
    ELSE IF Len(s) >= 2 /\ s[1] = "\r" /\ s[2] = "\n"
         THEN ReplaceCRLF(SubSeq(s, 3, Len(s)))
         ELSE <<s[1]>> \o ReplaceCRLF(Tail(s))

RECURSIVE LStrip(_)
LStrip(s) ==
    IF Len(s) > 0 /\ s[1] \in Whitespace THEN LStrip(Tail(s)) ELSE s

RECURSIVE RStrip(_)
RStrip(s) ==
    IF Len(s) > 0 /\ s[Len(s)] \in Whitespace
    THEN RStrip(SubSeq(s, 1, Len(s) - 1))
    ELSE s

\* str.strip()
Strip(s) == LStrip(RStrip(s))

\* Mutation of Stripped: strip() is left out.
StrippedNoStrip(raw) == ReplaceCRLF(raw)

\* Line 104: the line as the loop sees it before the emptiness test.
Stripped(raw) == Strip(ReplaceCRLF(raw))

\* Mutation of DropComma: the trailing comma is left in place.
DropCommaKept(s) == s

\* Lines 108-109: one trailing comma is dropped.
DropComma(s) ==
    IF Len(s) > 0 /\ s[Len(s)] = "," THEN SubSeq(s, 1, Len(s) - 1) ELSE s

\* Mutation of HasMarker: the marker test is gone, every line is parsed.
HasMarkerAlways(s) == Len(s) >= 0

\* Line 110: "pts_time" in stdout_line
HasMarker(s) == \E i \in 1..Len(s) : s[i] \in MarkerTokens

\* Line 112: json.loads succeeds on exactly one object text, whitespace aside.
JsonText(s) == SelectSeq(s, LAMBDA t : t \notin Whitespace)

LoadsOk(s) == Len(JsonText(s)) = 1 /\ JsonText(s)[1] \in ObjectTokens

Loads(s) == Decoded(JsonText(s)[1])

\* ---------------------------------------------------------- per-packet code
\* Mutation of FrameType: frames that are no keyframes become "B".
FrameTypeB(sp, decoded) ==
    LET frame_type == IF sp = "V" THEN decoded.flags ELSE "A"
    IN  IF frame_type = "K_" THEN "I" ELSE "B"

\* Lines 120-124: the frame type of a decoded packet.
FrameType(sp, decoded) ==
    LET frame_type == IF sp = "V" THEN decoded.flags ELSE "A"
    IN  IF frame_type = "K_" THEN "I" ELSE "P"

\* Lines 116-118 read decoded.get('duration_time'); float(None) raises.
NeedsDuration(sp, latched) == ~latched /\ sp = "a"

\* Mutation of InferRate: the latch is ignored, every packet sets the rate.
InferRateEvery(sp, latched, rate, decoded) ==
    IF sp = "a" /\ "duration_time" \in DOMAIN decoded
    THEN FDiv(FInt(1), ToFloat(decoded.duration_time))
    ELSE rate

\* Lines 116-118: the rate after the one-shot audio inference.
InferRate(sp, latched, rate, decoded) ==
    IF NeedsDuration(sp, latched)
    THEN FDiv(FInt(1), ToFloat(decoded.duration_time))
    ELSE rate

\* Mutation of FrameBitrate: bytes are not turned into bits.
FrameBitrateBytes(decoded, rate) ==
    FMul(FDiv(ToFloat(decoded.size), FInt(1000)), rate)

\* Line 125: (float(size) * 8 / 1000) * frame_rate
FrameBitrate(decoded, rate) ==
    FMul(FDiv(FMul(ToFloat(decoded.size), FInt(8)), FInt(1000)), rate)

\* Line 126
FrameTime(decoded) == ToFloat(decoded.pts_time)

\* Mutation of AddFrame: the frame is put at the front of its bucket.
AddFramePrepend(data, frame_type, frame) ==
    IF frame_type \in DOMAIN data
    THEN [data EXCEPT ![frame_type] = <<frame>> \o @]
    ELSE data @@ (frame_type :> <<frame>>)

\* Mutation of AddFrame: the bucket is made anew for every frame.
AddFrameReset(data, frame_type, frame) ==
    IF frame_type \in DOMAIN data
    THEN [data EXCEPT ![frame_type] = <<frame>>]
    ELSE data @@ (frame_type :> <<frame>>)

\* Lines 128-130: append to the bucket, creating it when absent.
AddFrame(data, frame_type, frame) ==
    IF frame_type \in DOMAIN data
    THEN [data EXCEPT ![frame_type] = Append(@, frame)]
    ELSE data @@ (frame_type :> <<frame>>)

\* Mutation of CountFrame: the increment is lost.
CountFrameLost(n) == n

\* Line 131
CountFrame(n) == n + 1

\* Mutation of Percent: the value is clamped to 100.
PercentClamped(frame_time, total) ==
    IF FGreater(FMul(FDiv(frame_time, total), FInt(100)), FInt(100))
    THEN FInt(100)
    ELSE FMul(FDiv(frame_time, total), FInt(100))

\* Line 133
Percent(frame_time, total) == FMul(FDiv(frame_time, total), FInt(100))

\* -------------------------------------------------------------- finalization
RECURSIVE MaxBitrate(_)
MaxBitrate(frame_list) ==
    IF Len(frame_list) = 1 THEN frame_list[1][2]
    ELSE LET m == MaxBitrate(Tail(frame_list))
         IN  IF FGreater(frame_list[1][2], m) THEN frame_list[1][2] ELSE m

RECURSIVE SumBitrate(_)
SumBitrate(frame_list) ==
    IF Len(frame_list) = 0 THEN FInt(0)
    ELSE FAdd(frame_list[1][2], SumBitrate(Tail(frame_list)))

\* Line 172: frame_array.mean(0)[1]
MeanBitrate(frame_list) == FDiv(SumBitrate(frame_list), FInt(Len(frame_list)))

\* Mutation of UpdatePeak: the comparison is gone, the last type wins.
UpdatePeakLast(peak, frame_list) == MaxBitrate(frame_list)

\* Lines 167-169
UpdatePeak(peak, frame_list) ==
    IF FGreater(MaxBitrate(frame_list), peak) THEN MaxBitrate(frame_list) ELSE peak

\* Mutation of UpdateMean: the per-type means are added without weights.
UpdateMeanUnweighted(mean, frame_list, count) ==
    FAdd(mean, MeanBitrate(frame_list))

\* Line 173: mean_bitrate * (len(frame_list) / frame_count)
UpdateMean(mean, frame_list, count) ==
    FAdd(mean, FMul(MeanBitrate(frame_list),
                    FDiv(FInt(Len(frame_list)), FInt(count))))

\* Line 156
TypeOrder == <<"I", "P", "B", "A">>

\* Lines 156-173: the pass over the frame types, from position i on.
RECURSIVE Totals(_, _, _, _)
Totals(i, data, count, acc) ==
    IF i > Len(TypeOrder) THEN acc
    ELSE IF TypeOrder[i] \notin DOMAIN data
         THEN Totals(i + 1, data, count, acc)
         ELSE Totals(i + 1, data, count,
                     [peak |-> UpdatePeak(acc.peak, data[TypeOrder[i]]),
                      mean |-> UpdateMean(acc.mean, data[TypeOrder[i]], count)])

\* --------------------------------------------------------------- the state
\* What ffprobe reports for the input file: avg_frame_rate of the video
\* stream as "<dividend>/<divisor>", and the format section.
AvgFrameRates ==
    { [dividend |-> Dec(25, 0), divisor |-> Dec(1, 0)],
      [dividend |-> Dec(30000, 0), divisor |-> Dec(1001, 0)],
      [dividend |-> Dec(0, 0), divisor |-> Dec(0, 0)] }

Formats ==
    { [filename |-> "INPUT", duration |-> Dec(100, 1)],
      [filename |-> "INPUT"] }

VARIABLES
    pc,                  \* where the program is
    spec,                \* "V" or "a" (lines 69-72)
    avg_frame_rate,      \* stream_data["streams"][0]["avg_frame_rate"]
    fmt_data,            \* fmt_data["format"]
    frame_rate,          \* global frame_rate
    total_time,          \* global total_time
    once,                \* main: once
    frame_count,         \* main: frame_count
    bitrate_data,        \* main: bitrate_data
    percent,             \* the last progress value written
    global_peak_bitrate, \* main: global_peak_bitrate
    global_mean_bitrate, \* main: global_mean_bitrate
    producer,            \* the ffprobe packet process
    written,             \* lines that process has written
    pipe,                \* lines in the pipe, oldest first
    stdout_open,         \* the read end of the pipe is open
    consumed,            \* history: the raw lines readline returned
    emitted              \* history: the frames appended, in order

vars ==
    <<pc, spec, avg_frame_rate, fmt_data, frame_rate, total_time, once,
      frame_count, bitrate_data, percent, global_peak_bitrate,
      global_mean_bitrate, producer, written, pipe, stdout_open, consumed,
      emitted>>

globals == <<spec, avg_frame_rate, fmt_data>>

locals == <<once, frame_count, bitrate_data, percent>>

totals == <<global_peak_bitrate, global_mean_bitrate>>

history == <<consumed, emitted>>

process == <<producer, written, pipe, stdout_open>>

EmptyDict == [t \in {} |-> <<>>]

Init ==
    /\ pc = "resolve"
    /\ spec \in {"V", "a"}
    /\ avg_frame_rate \in AvgFrameRates
    /\ fmt_data \in Formats
    /\ frame_rate = None
    /\ total_time = None
    /\ once = FALSE
    /\ frame_count = 0
    /\ bitrate_data = EmptyDict
    /\ percent = None
    /\ global_peak_bitrate = FInt(0)
    /\ global_mean_bitrate = FInt(0)
    /\ producer = "unborn"
    /\ written = 0
    /\ pipe = <<>>
    /\ stdout_open = FALSE
    /\ consumed = <<>>
    /\ emitted = <<>>

\* ------------------------------------------------------ metadata resolver
\* Line 85 divides by the divisor; line 86 takes float() of .get('duration').
ResolveFails ==
    \/ spec = "V" /\ ToFloat(avg_frame_rate.divisor) = FInt(0)
    \/ "duration" \notin DOMAIN fmt_data

\* Lines 83-86
Resolve ==
    /\ pc = "resolve"
    /\ ~ResolveFails
    /\ frame_rate' = IF spec = "V"
                     THEN FDiv(ToFloat(avg_frame_rate.dividend),
                               ToFloat(avg_frame_rate.divisor))
                     ELSE None
    /\ total_time' = ToFloat(fmt_data.duration)
    /\ pc' = "main"
    /\ UNCHANGED <<globals, locals, totals, history, process>>

\* Lines 83-86 when float division or float(None) raises.
ResolveRaises ==
    /\ pc = "resolve"
    /\ ResolveFails
    /\ pc' = "error"
    /\ UNCHANGED <<globals, frame_rate, total_time, locals, totals, history,
                   process>>

\* ------------------------------------------------------------ the producer
\* Lines 95-102: main starts the packet process with its stdout on a pipe.
Popen ==
    /\ pc = "main"
    /\ pc' = "loop"
    /\ producer' = "running"
    /\ stdout_open' = TRUE
    /\ UNCHANGED <<globals, frame_rate, total_time, locals, totals, history,
                   written, pipe>>

\* ffprobe writes one more line; it blocks while the pipe is full.
ProducerWrite ==
    /\ producer = "running"
    /\ stdout_open
    /\ written < MaxLines
    /\ Len(pipe) < PipeCap
    /\ \E line \in Lines : pipe' = Append(pipe, line)
    /\ written' = written + 1
    /\ UNCHANGED <<pc, globals, frame_rate, total_time, locals, totals,
                   history, producer, stdout_open>>

\* ffprobe has nothing more to write and exits, closing its end.
ProducerExit ==
    /\ producer = "running"
    /\ producer' = "exited"
    /\ UNCHANGED <<pc, globals, frame_rate, total_time, locals, totals,
                   history, written, pipe, stdout_open>>

\* ffprobe writes to a pipe whose read end is closed and is ended by it.
ProducerSigpipe ==
    /\ producer = "running"
    /\ ~stdout_open
    /\ written < MaxLines
    /\ producer' = "killed"
    /\ UNCHANGED <<pc, globals, frame_rate, total_time, locals, totals,
                   history, written, pipe, stdout_open>>

\* --------------------------------------------------------- the decoder loop
\* Line 103: readline returns the oldest line, or b"" once the producer has
\* closed an empty pipe; until then it blocks.
CanRead == pc = "loop" /\ (Len(pipe) > 0 \/ producer # "running")

Got == IF Len(pipe) > 0 THEN Head(pipe) ELSE <<>>

\* The pipe and the history after readline returned.
Taken ==
    /\ pipe' = IF Len(pipe) > 0 THEN Tail(pipe) ELSE pipe
    /\ consumed' = IF Len(pipe) > 0 THEN Append(consumed, Got) ELSE consumed

\* Mutation of CloseStdout: the pipe is not closed before the wait.
CloseStdoutForgotten == UNCHANGED <<stdout_open, pipe>>

\* Popen.__exit__ closes stdout; unread lines are lost.
CloseStdout ==
    /\ stdout_open' = FALSE
    /\ pipe' = <<>>

\* Leaving the with block (break or exception) after readline returned.
Closed ==
    /\ CloseStdout
    /\ consumed' = IF Len(pipe) > 0 THEN Append(consumed, Got) ELSE consumed

\* Mutation of RaiseTarget: the error is printed and not raised.
RaiseSwallowed == "loop"

\* Lines 113-115: where a JSONDecodeError takes the program.
RaiseTarget == "unwind"

\* Lines 103-107: an empty line (or end of file) breaks out of the loop.
LoopBreak ==
    /\ CanRead
    /\ Len(Stripped(Got)) = 0
    /\ Closed
    /\ pc' = "exit"
    /\ UNCHANGED <<globals, frame_rate, total_time, locals, totals, emitted,
                   producer, written>>

\* Lines 103-110: a line without the marker is passed over.
LoopSkip ==
    /\ CanRead
    /\ Len(Stripped(Got)) > 0
    /\ ~HasMarker(DropComma(Stripped(Got)))
    /\ Taken
    /\ UNCHANGED <<pc, globals, frame_rate, total_time, locals, totals,
                   emitted, producer, written, stdout_open>>

\* Lines 110-115: the marker is there and json.loads raises.
LoopDecodeError ==
    /\ CanRead
    /\ Len(Stripped(Got)) > 0
    /\ HasMarker(DropComma(Stripped(Got)))
    /\ ~LoadsOk(DropComma(Stripped(Got)))
    /\ Closed
    /\ pc' = RaiseTarget
    /\ UNCHANGED <<globals, frame_rate, total_time, locals, totals, emitted,
                   producer, written>>

\* Lines 116-117: float(decoded.get('duration_time')) raises on None.
LoopTypeError ==
    /\ CanRead
    /\ Len(Stripped(Got)) > 0
    /\ HasMarker(DropComma(Stripped(Got)))
    /\ LoadsOk(DropComma(Stripped(Got)))
    /\ NeedsDuration(spec, once)
    /\ "duration_time" \notin DOMAIN Loads(DropComma(Stripped(Got)))
    /\ Closed
    /\ pc' = "unwind"
    /\ UNCHANGED <<globals, frame_rate, total_time, locals, totals, emitted,
                   producer, written>>

\* Lines 103-134: a packet record is decoded and its frame stored.
LoopFrame ==
    /\ CanRead
    /\ Len(Stripped(Got)) > 0
    /\ HasMarker(DropComma(Stripped(Got)))
    /\ LoadsOk(DropComma(Stripped(Got)))
    /\ LET decoded == Loads(DropComma(Stripped(Got)))
       IN  /\ NeedsDuration(spec, once) => "duration_time" \in DOMAIN decoded
           /\ LET rate == InferRate(spec, once, frame_rate, decoded)
                  frame_type == FrameType(spec, decoded)
                  frame == <<FrameTime(decoded), FrameBitrate(decoded, rate)>>
              IN  /\ frame_rate' = rate
                  /\ once' = (once \/ spec = "a")
                  /\ bitrate_data' = AddFrame(bitrate_data, frame_type, frame)
                  /\ frame_count' = CountFrame(frame_count)
                  /\ percent' = IF total_time # None
                                THEN Percent(frame[1], total_time)
                                ELSE percent
                  /\ emitted' = Append(emitted,
                                       [line |-> Got, frame_type |-> frame_type,
                                        frame |-> frame, rate |-> rate])
    /\ Taken
    /\ UNCHANGED <<pc, globals, total_time, totals, producer, written,
                   stdout_open>>

\* Popen.__exit__ after a break: wait for the process, then go on to line 135.
Wait ==
    /\ pc = "exit"
    /\ producer # "running"
    /\ pc' = "finalize"
    /\ UNCHANGED <<globals, frame_rate, total_time, locals, totals, history,
                   process>>

\* Popen.__exit__ after an exception: wait, then the exception leaves main.
Reraise ==
    /\ pc = "unwind"
    /\ producer # "running"
    /\ pc' = "error"
    /\ UNCHANGED <<globals, frame_rate, total_time, locals, totals, history,
                   process>>

\* Mutation of FinalizeFails: the weight is computed before the skip test.
FinalizeFailsEarly(data, count) == count = 0

\* Line 173 divides by frame_count for every type that has a bucket.
FinalizeFails(data, count) == count = 0 /\ DOMAIN data # {}

\* Lines 135-215: the totals are computed and the chart is drawn.
Finalize ==
    /\ pc = "finalize"
    /\ IF FinalizeFails(bitrate_data, frame_count)
       THEN /\ pc' = "error"
            /\ UNCHANGED totals
       ELSE LET t == Totals(1, bitrate_data, frame_count,
                            [peak |-> FInt(0), mean |-> FInt(0)])
            IN  /\ global_peak_bitrate' = t.peak
                /\ global_mean_bitrate' = t.mean
                /\ pc' = "done"
    /\ UNCHANGED <<globals, frame_rate, total_time, locals, history, process>>

Next ==
    \/ Resolve
    \/ ResolveRaises
    \/ Popen
    \/ ProducerWrite
    \/ ProducerExit
    \/ ProducerSigpipe
    \/ LoopBreak
    \/ LoopSkip
    \/ LoopDecodeError
    \/ LoopTypeError
    \/ LoopFrame
    \/ Wait
    \/ Reraise
    \/ Finalize

Spec == Init /\ [][Next]_vars

\* The steps of the Python program itself, which runs until it ends.
ProgramStep ==
    \/ Resolve
    \/ ResolveRaises
    \/ Popen
    \/ LoopBreak
    \/ LoopSkip
    \/ LoopDecodeError
    \/ LoopTypeError
    \/ LoopFrame
    \/ Wait
    \/ Reraise
    \/ Finalize

\* The states in which the program has a step to take: it is not blocked in
\* readline or in wait, and has not ended.
ProgramEnabled ==
    \/ pc \in {"resolve", "main", "finalize"}
    \/ CanRead
    \/ pc \in {"exit", "unwind"} /\ producer # "running"

\* What a step of the program does to its position and to what it has read:
\* every step of ProgramStep changes one of the two, no step of the producer
\* changes either.
ProgramMove ==
    /\ ProgramEnabled
    /\ pc' \in {"main", "loop", "exit", "unwind", "finalize", "done", "error"}
    /\ consumed' \in {consumed} \cup {Append(consumed, line) : line \in Lines}

\* The program keeps running while it has a step to take; nothing is assumed
\* of the producer.  This is weak fairness of ProgramStep, stated on the two
\* variables that tell its steps from the others.
FairSpec == Spec /\ WF_<<pc, consumed>>(ProgramMove)

\* KeyboardInterrupt while the loop runs or waits in readline: the with
\* block is left by the exception and nothing more is read.
Interrupt ==
    /\ pc = "loop"
    /\ CloseStdout
    /\ pc' = "unwind"
    /\ UNCHANGED <<globals, frame_rate, total_time, locals, totals, history,
                   producer, written>>

\* ffprobe exits once it has written the MaxLines lines of its output.
ProducerDone ==
    /\ written = MaxLines
    /\ ProducerExit

\* The program with a user who may interrupt it, and a producer that has
\* MaxLines lines to write and exits only after the last.
NextPipe ==
    \/ Resolve
    \/ ResolveRaises
    \/ Popen
    \/ ProducerWrite
    \/ ProducerDone
    \/ ProducerSigpipe
    \/ LoopBreak
    \/ LoopSkip
    \/ LoopDecodeError
    \/ LoopTypeError
    \/ LoopFrame
    \/ Interrupt
    \/ Wait
    \/ Reraise
    \/ Finalize

\* Both processes keep running: the program while it has a step to take,
\* ffprobe while it can write, has finished, or writes to a closed pipe.
PipeSpec ==
    /\ Init
    /\ [][NextPipe]_vars
    /\ WF_<<pc, consumed>>(ProgramMove)
    /\ WF_vars(ProducerWrite)
    /\ WF_vars(ProducerDone)
    /\ WF_vars(ProducerSigpipe)

\* ------------------------------------------------------------------ claims
\* The inputs the claims speak of, named line by line.
LineP3Comma == <<"P3", ",", "\n">>

LineP3Plain == <<"P3", "\n">>

LineBlank == <<"\n">>

\* Well-formed packet record lines.
PacketLines ==
    { <<" ", "P1", ",", "\n">>, <<" ", "P2", ",", "\r", "\n">>,
      LineP3Comma, LineP3Plain, <<" ", "P4", "\n">> }

\* Non-empty lines that do not hold the characters pts_time.
NoiseLines == { <<" ", "]", "\n">>, <<",", "\n">> }

\* Lines that hold the characters pts_time and are no JSON text.
MalformedLines == { <<"P1~", "\n">>, <<"P2", ",", ",", "\n">> }

\* The packet object a well-formed record line carries.
PacketOf(raw) ==
    Decoded(CHOOSE t \in ObjectTokens : \E k \in 1..Len(raw) : raw[k] = t)

DurationOf(raw) == ToFloat(PacketOf(raw).duration_time)

HasDuration(raw) == "duration_time" \in DOMAIN PacketOf(raw)

\* The number of the first n consumed lines that lie in the set S.
CountIn(S, n) == Cardinality({i \in 1..n : consumed[i] \in S})

\* Every emitted frame sits in the bucket of its type, and the buckets hold
\* nothing else.
InBucket(i) ==
    /\ emitted[i].frame_type \in DOMAIN bitrate_data
    /\ \E j \in 1..Len(bitrate_data[emitted[i].frame_type]) :
           bitrate_data[emitted[i].frame_type][j] = emitted[i].frame

RECURSIVE BucketSizes(_)
BucketSizes(types) ==
    IF types = {} THEN 0
    ELSE LET t == CHOOSE x \in types : TRUE
         IN  Len(bitrate_data[t]) + BucketSizes(types \ {t})

\* C1: for an Audio stream every stored sample sits in the bucket keyed "A"
\* and no other bucket exists.
C1_AudioClassifiedA ==
    spec = "a" =>
        /\ DOMAIN bitrate_data \subseteq {"A"}
        /\ \A i \in 1..Len(emitted) : emitted[i].frame_type = "A"

C3_AudioRateLatch ==
    (spec = "a" /\ Len(emitted) > 0) =>
        /\ once
        /\ FMul(frame_rate, DurationOf(emitted[1].line)) = FInt(1)
        /\ \A i \in 1..Len(emitted) :
               /\ emitted[i].rate = frame_rate
               /\ FMul(emitted[i].frame[2], FInt(1000)) =
                      FMul(FMul(ToFloat(PacketOf(emitted[i].line).size), FInt(8)),
                           frame_rate)

C3_Witness ==
    /\ spec = "a"
    /\ Len(emitted) = 2
    /\ DurationOf(emitted[1].line) = <<1, 50>>
    /\ HasDuration(emitted[2].line)
    /\ DurationOf(emitted[2].line) = <<1, 25>>
    /\ frame_rate = FInt(50)
    /\ emitted[2].frame[2] = FInt(200)

\* C4: every stored sample has bitrate (size * 8 / 1000) * rate and time
\* pts_time of its packet; for Video the rate is the nominal frame rate the
\* resolver obtained, and the loop never changes it.
C4_BitrateFormula ==
    /\ \A i \in 1..Len(emitted) :
           /\ InBucket(i)
           /\ emitted[i].frame[1] = ToFloat(PacketOf(emitted[i].line).pts_time)
           /\ FMul(emitted[i].frame[2], FInt(1000)) =
                  FMul(FMul(ToFloat(PacketOf(emitted[i].line).size), FInt(8)),
                       emitted[i].rate)
           /\ spec = "V" => emitted[i].rate = frame_rate
    /\ (spec = "V" /\ pc \notin {"resolve", "error"}) =>
           FMul(frame_rate, ToFloat(avg_frame_rate.divisor)) =
               ToFloat(avg_frame_rate.dividend)
    /\ BucketSizes(DOMAIN bitrate_data) = Len(emitted)

C4_Witness ==
    /\ spec = "V"
    /\ frame_rate = <<30000, 1001>>
    /\ Len(emitted) = 2
    /\ emitted[1].frame = <<FInt(0), <<240000, 1001>>>>
    /\ emitted[2].frame[2] = <<120000, 1001>>

\* The sum of the bitrates of the first n emitted frames.
RECURSIVE EmittedSum(_)
EmittedSum(n) ==
    IF n = 0 THEN FInt(0) ELSE FAdd(emitted[n].frame[2], EmittedSum(n - 1))

\* C5: at finalization the global mean equals the arithmetic mean of the
\* bitrates of all samples of all types, whenever there is a sample.
C5_GlobalMean ==
    (pc = "done" /\ Len(emitted) > 0) =>
        FMul(global_mean_bitrate, FInt(Len(emitted))) = EmittedSum(Len(emitted))

C5_Witness ==
    /\ pc = "done"
    /\ DOMAIN bitrate_data = {"I", "P"}
    /\ Len(bitrate_data["I"]) = 1
    /\ Len(bitrate_data["P"]) = 2
    /\ bitrate_data["P"][1][2] # bitrate_data["P"][2][2]
    /\ global_mean_bitrate[2] # 1

\* C6: at finalization the global peak is the largest bitrate among all
\* samples of all types, a single sample included.
C6_GlobalPeak ==
    (pc = "done" /\ Len(emitted) > 0) =>
        /\ \E i \in 1..Len(emitted) : emitted[i].frame[2] = global_peak_bitrate
        /\ \A i \in 1..Len(emitted) :
               ~FGreater(emitted[i].frame[2], global_peak_bitrate)

C6_Witness ==
    /\ pc = "done"
    /\ DOMAIN bitrate_data = {"I", "P"}
    /\ Len(emitted) = 3
    /\ FGreater(global_peak_bitrate, FInt(0))
    /\ \A j \in 1..Len(bitrate_data["P"]) :
           FGreater(global_peak_bitrate, bitrate_data["P"][j][2])

\* C7: a line that holds the marker and fails to parse is the last line
\* consumed: the program unwinds with an error, the line adds no sample and
\* no count, and the totals of finalization are never computed.
C7_MalformedAborts ==
    \A i \in 1..Len(consumed) :
        consumed[i] \in MalformedLines =>
            /\ i = Len(consumed)
            /\ pc \in {"unwind", "error"}
            /\ ~stdout_open
            /\ frame_count = CountIn(PacketLines, i - 1)
            /\ Len(emitted) = frame_count
            /\ \A k \in 1..Len(emitted) : emitted[k].line \notin MalformedLines
            /\ global_peak_bitrate = FInt(0)
            /\ global_mean_bitrate = FInt(0)

C7_Witness ==
    /\ pc = "error"
    /\ Len(consumed) = 2
    /\ consumed[1] \in PacketLines
    /\ consumed[2] \in MalformedLines
    /\ frame_count = 1
    /\ producer = "killed"

\* C8 as stated: every non-empty line that is no packet record, a malformed
\* one included, is passed over without error and leaves buckets, count and
\* rate latch as they were.
C8_NonRecordSkipped ==
    [][(Len(consumed') = Len(consumed) + 1
        /\ consumed'[Len(consumed')] \in NoiseLines \cup MalformedLines)
       => (pc' = "loop" /\ UNCHANGED <<bitrate_data, frame_count, once, frame_rate>>)]_vars

\* C8 amended: every non-empty line that does not hold the marker is passed
\* over without error, leaves buckets, count, rate latch and progress as they
\* were, and the loop goes on.
C8_NoiseSkipped ==
    [][(Len(consumed') = Len(consumed) + 1
        /\ consumed'[Len(consumed')] \in NoiseLines)
       => (pc' = "loop" /\ stdout_open'
           /\ UNCHANGED <<bitrate_data, frame_count, once, frame_rate, percent,
                          emitted>>)]_vars

C8_Witness ==
    /\ pc = "loop"
    /\ Len(consumed) = 3
    /\ consumed[1] \in PacketLines
    /\ consumed[2] \in NoiseLines
    /\ consumed[3] \in PacketLines
    /\ frame_count = 2

\* C9: while no error occurred the sample count is the number of consumed
\* lines that are packet records; noise and blank lines do not count.
C9_CountIsAccepted ==
    pc \in {"loop", "exit", "finalize", "done"} =>
        frame_count = CountIn(PacketLines, Len(consumed))

C9_Witness ==
    /\ pc = "done"
    /\ Len(consumed) = 3
    /\ CountIn(NoiseLines, 3) = 1
    /\ frame_count = 2

\* C10: a record line with a trailing comma gives the very sample the line
\* without the comma gives, and for Video the line with flags K_ and a
\* comma, followed by a blank line, leaves exactly one sample, of type I,
\* and no error.
C10_TrailingComma ==
    /\ \A i \in 1..Len(emitted) : \A j \in 1..Len(emitted) :
           (emitted[i].line = LineP3Comma /\ emitted[j].line = LineP3Plain) =>
               /\ emitted[i].frame = emitted[j].frame
               /\ emitted[i].frame_type = emitted[j].frame_type
    /\ (/\ Len(consumed) > 0
        /\ consumed[Len(consumed)] = LineP3Comma
        /\ (spec = "V" \/ Len(emitted) > 0)) =>
           /\ pc \notin {"unwind", "error"}
           /\ Len(emitted) > 0
           /\ emitted[Len(emitted)].line = LineP3Comma
           /\ frame_count = CountIn(PacketLines, Len(consumed))
    /\ (spec = "V" /\ consumed = <<LineP3Comma, LineBlank>>) =>
           /\ pc \in {"exit", "finalize", "done"}
           /\ frame_count = 1
           /\ DOMAIN bitrate_data = {"I"}
           /\ Len(bitrate_data["I"]) = 1
           /\ bitrate_data["I"][1][1] = FInt(1)
           /\ FMul(bitrate_data["I"][1][2], FInt(10)) = FMul(FInt(8), frame_rate)

C10_Witness ==
    /\ spec = "V"
    /\ pc = "done"
    /\ consumed = <<LineP3Comma, LineBlank>>
    /\ global_peak_bitrate = FInt(20)

\* C12: with a total duration, the progress value after an accepted sample
\* is (pts_time / total_duration) * 100 and is not clamped: duration 10 and
\* pts_time 12 give 120.
C12_ProgressUnclamped ==
    (total_time # None /\ Len(emitted) > 0) =>
        /\ FMul(percent, total_time) =
               FMul(ToFloat(PacketOf(emitted[Len(emitted)].line).pts_time),
                    FInt(100))
        /\ (total_time = FInt(10)
            /\ PacketOf(emitted[Len(emitted)].line).pts_time = Dec(120, 1)) =>
               percent = FInt(120)

C12_Witness ==
    /\ total_time = FInt(10)
    /\ Len(emitted) = 2
    /\ emitted[2].frame[1] = FInt(12)
    /\ percent = FInt(120)

\* C13: when the container reports no duration the program does not fail
\* for it: the stream is read and no progress value is written.
C13_NoDurationNoError ==
    ("duration" \notin DOMAIN fmt_data
     /\ ~(spec = "V" /\ ToFloat(avg_frame_rate.divisor) = FInt(0))) =>
        /\ pc # "error"
        /\ percent = None

\* C14: Video at 25 frames a second with the records (0.00, 1000, K_) and
\* (0.04, 500, __) ends with I = [(0.00, 200)], P = [(0.04, 100)], peak 200
\* and mean 150.
C14_EndToEnd ==
    (/\ spec = "V"
     /\ avg_frame_rate = [dividend |-> Dec(25, 0), divisor |-> Dec(1, 0)]
     /\ consumed = << <<" ", "P1", ",", "\n">>, <<" ", "P2", ",", "\r", "\n">> >>
     /\ pc \in {"exit", "finalize", "done"}) =>
        /\ DOMAIN bitrate_data = {"I", "P"}
        /\ bitrate_data["I"] = << <<FInt(0), FInt(200)>> >>
        /\ bitrate_data["P"] = << <<<<1, 25>>, FInt(100)>> >>
        /\ pc = "done" =>
               /\ global_peak_bitrate = FInt(200)
               /\ global_mean_bitrate = FInt(150)

C14_Witness ==
    /\ spec = "V"
    /\ frame_rate = FInt(25)
    /\ consumed = << <<" ", "P1", ",", "\n">>, <<" ", "P2", ",", "\r", "\n">> >>
    /\ pc = "done"
    /\ global_mean_bitrate = FInt(150)

\* C15: with no sample at all finalization ends without error and leaves
\* the global peak and the global mean at zero; nothing is divided by the
\* zero sample count.
C15_EmptyFinalization ==
    [][(pc = "finalize" /\ frame_count = 0)
       => (pc' = "done"
           /\ global_peak_bitrate' = FInt(0)
           /\ global_mean_bitrate' = FInt(0))]_vars

C15_Witness ==
    /\ pc = "done"
    /\ frame_count = 0
    /\ Len(consumed) = 3
    /\ CountIn(NoiseLines, 3) = 2

\* The frames of the entries of the log that have type t, in order.
RECURSIVE FramesOfType(_, _)
FramesOfType(t, log) ==
    IF Len(log) = 0 THEN <<>>
    ELSE IF log[1].frame_type = t
         THEN <<log[1].frame>> \o FramesOfType(t, Tail(log))
         ELSE FramesOfType(t, Tail(log))

IsPrefix(a, b) == Len(a) <= Len(b) /\ SubSeq(b, 1, Len(a)) = a

\* C16: every step leaves each bucket a prefix of what it becomes, each
\* bucket holds the frames of its type in the order they arrived, and the
\* finalization pass changes neither the buckets nor the sample count.
C16_AppendOnly ==
    [][/\ \A t \in DOMAIN bitrate_data :
              /\ t \in DOMAIN bitrate_data'
              /\ IsPrefix(bitrate_data[t], bitrate_data'[t])
       /\ \A t \in DOMAIN bitrate_data' :
              bitrate_data'[t] = FramesOfType(t, emitted')
       /\ pc \in {"finalize", "done"} => UNCHANGED <<bitrate_data, frame_count>>]_vars

C16_Witness ==
    /\ pc = "done"
    /\ Len(emitted) = 3
    /\ emitted[1].frame_type = "P"
    /\ emitted[2].frame_type = "I"
    /\ emitted[3].frame_type = "P"
    /\ bitrate_data["P"] = <<emitted[1].frame, emitted[3].frame>>
    /\ emitted[1].frame # emitted[3].frame

\* C18: in every state the sample count is the sum of the bucket lengths.
C18_CountIsBucketTotal ==
    /\ frame_count = BucketSizes(DOMAIN bitrate_data)
    /\ frame_count = Len(emitted)

C18_Witness ==
    /\ pc = "loop"
    /\ frame_count = 3
    /\ DOMAIN bitrate_data = {"I", "P"}

\* C11: the loop is left without error only on a line that is empty once
\* stripped or at the end of the pipe of a producer that is gone; after an
\* empty line nothing more is consumed or appended; an error leaves the loop
\* only on a fatal record; and once the producer is gone the program goes on
\* to finish finalization, unless a fatal record ends it with an error.
C11_LoopTermination ==
    /\ [][(pc = "loop" /\ pc' = "exit")
          => IF Len(pipe) > 0
             THEN consumed' = Append(consumed, LineBlank)
             ELSE producer # "running" /\ consumed' = consumed]_vars
    /\ [][(\E i \in 1..Len(consumed) : consumed[i] = LineBlank)
          => (pc # "loop" /\ pc' # "loop" /\ UNCHANGED <<consumed, emitted>>)]_vars
    /\ []((pc \in {"unwind", "error"} /\ Len(consumed) > 0)
          => \/ consumed[Len(consumed)] \in MalformedLines
             \/ /\ spec = "a"
                /\ Len(emitted) = 0
                /\ consumed[Len(consumed)] \in {LineP3Comma, LineP3Plain})
    /\ (pc = "loop" /\ producer # "running") ~> (pc \in {"done", "error"})

C11_Witness ==
    /\ pc = "done"
    /\ Len(consumed) = 2
    /\ consumed[1] \in PacketLines
    /\ consumed[2] = LineBlank
    /\ written = MaxLines
    /\ frame_count = 1

\* C17: a consumer that leaves the loop, by interrupt, error or blank line,
\* has closed the pipe and reads nothing more, and it never waits for ever:
\* the producer ends, by finishing or by its write to the closed pipe, and
\* the program goes on to finalization or to its error.
C17_NoDeadlock ==
    /\ [](pc \in {"exit", "unwind"} => (~stdout_open /\ pipe = <<>>))
    /\ [][(pc \in {"exit", "unwind", "finalize", "done", "error"})
          => (UNCHANGED <<consumed, emitted, pipe, stdout_open>>)]_vars
    /\ [](~stdout_open /\ producer = "running" /\ written < MaxLines
          => ENABLED ProducerSigpipe)
    /\ (pc \in {"exit", "unwind"}) ~> (pc \in {"finalize", "done", "error"})

C17_Witness ==
    /\ pc = "error"
    /\ consumed = <<>>
    /\ producer = "killed"
    /\ written = PipeCap
    /\ written < MaxLines

=============================================================================
